---- MODULE Spec2Model ----
(***************************************************************************)
(* The Lua binding of the ECS world (crates/bevy_script_api/src/lua/bevy/  *)
(* mod.rs): LuaWorld, LuaQueryBuilder and the stepping cursor returned by  *)
(* LuaQueryBuilder::iter, over an abstract world of generational entity    *)
(* slots, component sets, parent/child links and resources.                *)
(***************************************************************************)
EXTENDS Integers, Sequences, FiniteSets, TLC

\* ------------------------------------------------------------- bounds
NumSlots == 3
MaxGen == 1
NumCompTypes == 2
MaxChildrenArg == 1
MaxFilterLen == 1
MaxSteps == 5
MaxMutations == 1
MaxWrites == 2
NumCallers == 2
MaxIndex == 4
MaxComponents == 2

\* ------------------------------------------------------------- values
Slots == 1 .. NumSlots

CompNames == <<"A", "B", "C", "D", "E">>

CompTypes == {CompNames[i] : i \in 1 .. NumCompTypes}

ResTypes == {"R"}

Types == CompTypes \cup ResTypes

IsComponent(t) == t \in CompTypes

IsResource(t) == t \in ResTypes

\* A type of another module that carries the identifier of the first
\* component type; the host may register it next to the game's types.
Twin == "Twin"

Registrable == Types \cup {Twin}

\* The module a type is declared in, and its identifier in that module.
ModulePath(t) == IF t = Twin THEN "ui" ELSE "game"

Ident(t) == IF t = Twin THEN CompNames[1] ELSE t

\* The short path of a type is its path without the module.
short_name(t) == Ident(t)

type_name(t) == ModulePath(t) \o "::" \o Ident(t)

TypeNames ==
    {short_name(t) : t \in Registrable} \cup {type_name(t) : t \in Registrable}
        \cup {"Missing"}

Entity(i, g) == [index |-> i, generation |-> g]

NoEntity == Entity(0, 0)

Ok(v) == [tag |-> "Ok", val |-> v]

Err(m) == [tag |-> "Err", val |-> m]

Unit == "unit"

NoType == "-"

\* A component value handed to the script: it knows its concrete type and the
\* entity it belongs to.
Value(t, e) == [ty |-> t, of |-> e]

Nil == Value("nil", NoEntity)

\* A script-side entity handle: LuaEntity::inner() either resolves to the
\* entity id or fails.
LuaEntity(e) == [resolves |-> TRUE, entity |-> e]

BrokenEntity == [resolves |-> FALSE, entity |-> NoEntity]

inner(h) == IF h.resolves THEN Ok(h.entity) ELSE Err("inner")

\* ------------------------------------------------------------- world
EmptyWorld ==
    [live |-> [s \in Slots |-> FALSE],
     gen |-> [s \in Slots |-> 0],
     comps |-> [s \in Slots |-> {}],
     parent |-> [s \in Slots |-> NoEntity],
     children |-> [s \in Slots |-> <<>>],
     pending |-> <<>>,
     res |-> ResTypes,
     registry |-> Types]

Valid(w, e) ==
    /\ e.index \in Slots
    /\ w.live[e.index]
    /\ w.gen[e.index] = e.generation

\* The ids a script can hold: every id some spawn has returned.
Issued(w) ==
    {e \in [index : Slots, generation : 0 .. (MaxGen + 1)] :
        \/ e.generation < w.gen[e.index]
        \/ e.generation = w.gen[e.index] /\ w.live[e.index]}

LiveEntities(w) == {e \in Issued(w) : Valid(w, e)}

Handles(w) == {LuaEntity(e) : e \in Issued(w)} \cup {BrokenEntity}

Range(s) == {s[i] : i \in DOMAIN s}

RECURSIVE SeqsUpTo(_, _)
SeqsUpTo(S, n) ==
    IF n = 0 THEN {<<>>}
    ELSE LET shorter == SeqsUpTo(S, n - 1)
         IN shorter \cup {Append(q, x) : q \in {p \in shorter : Len(p) = n - 1}, x \in S}

Removing(s, X) == SelectSeq(s, LAMBDA x : x \notin X)

\* An operation's outcome: the world it leaves and the value it returns.
Out(w, r) == [w |-> w, r |-> r]

\* ------------------------------------------------- entities (World)
\* A slot no entity has used yet: the allocator hands them out in order.
Fresh(w) == {s \in Slots : ~w.live[s] /\ w.gen[s] = 0 /\ s \notin Range(w.pending)}

\* The slot the next spawn gets: the slot freed last, else the next fresh one.
NextSlot(w) ==
    IF w.pending # <<>> THEN w.pending[Len(w.pending)]
    ELSE IF Fresh(w) # {} THEN CHOOSE s \in Fresh(w) : \A u \in Fresh(w) : s <= u
    ELSE 0

\* The world has room for another entity within the model's bounds.
CanSpawn(w) == NextSlot(w) \in Slots /\ w.gen[NextSlot(w)] <= MaxGen

\* World::spawn(()): an empty entity in the allocator's next slot, at the
\* slot's current generation.
WorldSpawn(w) ==
    LET s == NextSlot(w)
    IN Out([w EXCEPT !.live[s] = TRUE,
                     !.pending = IF w.pending # <<>>
                                 THEN SubSeq(w.pending, 1, Len(w.pending) - 1)
                                 ELSE w.pending],
           Entity(s, w.gen[s]))

\* World::despawn(entity): removes the entity with all its components (its
\* own Parent and Children components included) and retires its id; false
\* when the id does not resolve.  Links held by other entities are untouched.
WorldDespawn(w, e) ==
    IF Valid(w, e)
    THEN Out([w EXCEPT !.live[e.index] = FALSE,
                       !.gen[e.index] = @ + 1,
                       !.pending = Append(@, e.index),
                       !.comps[e.index] = {},
                       !.parent[e.index] = NoEntity,
                       !.children[e.index] = <<>>],
             TRUE)
    ELSE Out(w, FALSE)

\* ------------------------------------------- ComponentAccessor (ScriptWorld)
add_default_component(w, e, t) ==
    IF ~IsComponent(t) THEN Out(w, Err("NotAComponent"))
    ELSE IF ~Valid(w, e) THEN Out(w, Err("InvalidEntity"))
    ELSE Out([w EXCEPT !.comps[e.index] = @ \cup {t}], Ok(Value(t, e)))

get_component(w, e, t) ==
    IF ~IsComponent(t) THEN Out(w, Err("NotAComponent"))
    ELSE IF ~Valid(w, e) THEN Out(w, Err("InvalidEntity"))
    ELSE IF t \in w.comps[e.index] THEN Out(w, Ok(Value(t, e)))
    ELSE Out(w, Ok(Nil))

has_component(w, e, t) ==
    IF ~IsComponent(t) THEN Out(w, Err("NotAComponent"))
    ELSE IF ~Valid(w, e) THEN Out(w, Err("InvalidEntity"))
    ELSE Out(w, Ok(t \in w.comps[e.index]))

remove_component(w, e, t) ==
    IF ~IsComponent(t) THEN Out(w, Err("NotAComponent"))
    ELSE IF ~Valid(w, e) THEN Out(w, Err("InvalidEntity"))
    ELSE Out([w EXCEPT !.comps[e.index] = @ \ {t}], Ok(Unit))

Raised(m) == [tag |-> "Raised", val |-> m]

\* map_err(|e| mlua::Error::RuntimeError(e.to_string())): an accessor's
\* error becomes a raised error carrying its message; a value passes through.
map_err(o) == IF o.r.tag = "Err" THEN Out(o.w, Raised(o.r.val)) ELSE o

\* entity.inner()? followed by the accessor call and map_err.
LuaAddDefaultComponent(w, h, t) ==
    IF inner(h).tag = "Err" THEN Out(w, Raised("inner"))
    ELSE map_err(add_default_component(w, inner(h).val, t))

LuaGetComponent(w, h, t) ==
    IF inner(h).tag = "Err" THEN Out(w, Raised("inner"))
    ELSE map_err(get_component(w, inner(h).val, t))

LuaHasComponent(w, h, t) ==
    IF inner(h).tag = "Err" THEN Out(w, Raised("inner"))
    ELSE map_err(has_component(w, inner(h).val, t))

\* remove_component calling the accessor of the method above it.
LuaRemoveComponent_Gets(w, h, t) ==
    IF inner(h).tag = "Err" THEN Out(w, Raised("inner"))
    ELSE map_err(get_component(w, inner(h).val, t))

\* remove_component calling the accessor that inserts.
LuaRemoveComponent_Adds(w, h, t) ==
    IF inner(h).tag = "Err" THEN Out(w, Raised("inner"))
    ELSE map_err(add_default_component(w, inner(h).val, t))

LuaRemoveComponent(w, h, t) ==
    IF inner(h).tag = "Err" THEN Out(w, Raised("inner"))
    ELSE map_err(remove_component(w, inner(h).val, t))

\* ------------------------------------------------------- hierarchy
\* remove_from_children: drops child from the Children of parent p, when p
\* still resolves.
RemoveFromChildren(w, p, c) ==
    IF Valid(w, p)
    THEN [w EXCEPT !.children[p.index] = Removing(@, {c})]
    ELSE w

\* update_old_parents: each child, in order, gets the Parent back-reference
\* p and leaves the Children of the parent it had before.
RECURSIVE UpdateOldParents(_, _, _)
UpdateOldParents(w, p, cs) ==
    IF cs = <<>> THEN w
    ELSE LET c == Head(cs)
             prev == w.parent[c.index]
             w1 == [w EXCEPT !.parent[c.index] = p]
             w2 == IF prev # NoEntity /\ prev # p
                   THEN RemoveFromChildren(w1, prev, c)
                   ELSE w1
         IN UpdateOldParents(w2, p, Tail(cs))

\* EntityWorldMut::push_children(&children): the children move to the end
\* of p's Children, in the order given.
PushChildren(w, p, cs) ==
    LET w1 == UpdateOldParents(w, p, cs)
    IN [w1 EXCEPT !.children[p.index] = Removing(@, Range(cs)) \o cs]

\* The list s with cs put in at position index, counted from 0; an index
\* past the end of s puts them at the end.
InsertAt(s, index, cs) ==
    LET k == IF index < Len(s) THEN index ELSE Len(s)
    IN SubSeq(s, 1, k) \o cs \o SubSeq(s, k + 1, Len(s))

\* HierarchyManager insert_children: like push_children, the children going
\* in at the index instead of at the end; a parent that is no entity of the
\* world is skipped.
insert_children(w, p, index, cs) ==
    IF ~Valid(w, p) THEN w
    ELSE LET w1 == UpdateOldParents(w, p, cs)
         IN [w1 EXCEPT !.children[p.index] = InsertAt(Removing(@, Range(cs)), index, cs)]

\* An insert_child that leaves the index out and inserts at the front.
LuaInsertChild_AtFront(w, ph, index, ch) ==
    IF inner(ph).tag = "Err" THEN Out(w, Raised("inner"))
    ELSE IF inner(ch).tag = "Err" THEN Out(w, Raised("inner"))
    ELSE Out(insert_children(w, inner(ph).val, 0, <<inner(ch).val>>), Ok(Unit))

\* insert_child: world.insert_children(parent.inner()?, *index, &[child.inner()?]).
LuaInsertChild(w, ph, index, ch) ==
    IF inner(ph).tag = "Err" THEN Out(w, Raised("inner"))
    ELSE IF inner(ch).tag = "Err" THEN Out(w, Raised("inner"))
    ELSE Out(insert_children(w, inner(ph).val, index, <<inner(ch).val>>), Ok(Unit))

\* The entities reached from the frontier over Children links of entities
\* that still resolve.
RECURSIVE Reach(_, _, _)
Reach(w, frontier, seen) ==
    IF frontier = {} THEN seen
    ELSE LET next == {c \in UNION {Range(w.children[e.index]) : e \in frontier} :
                         Valid(w, c) /\ c \notin seen \cup frontier}
         IN Reach(w, next, seen \cup frontier)

Descendants(w, e) == IF Valid(w, e) THEN Reach(w, {e}, {}) ELSE {}

\* A walk never has more entities to visit than the world has slots; one
\* that visits more is going round a cycle and would not end.
WalkBudget == NumSlots

StartWalk(w, visited) ==
    [w |-> w, visited |-> visited, trace |-> <<>>, diverged |-> FALSE]

\* One step of the depth-first walk: st is the world so far, the ids
\* already visited and the visits in their order.  An id that was visited,
\* or that no longer resolves, is skipped; otherwise its children are walked
\* in order, then it is despawned.
RECURSIVE DespawnVisit(_, _), DespawnVisitAll(_, _)
\* The walk without its visited set: an id is skipped only when it no
\* longer resolves.
DespawnVisit_Revisits(st, e) ==
    IF st.diverged \/ ~Valid(st.w, e) THEN st
    ELSE IF Len(st.trace) >= WalkBudget THEN [st EXCEPT !.diverged = TRUE]
    ELSE LET kids == st.w.children[e.index]
             st1 == DespawnVisitAll([st EXCEPT !.trace = Append(@, e)], kids)
         IN [st1 EXCEPT !.w = WorldDespawn(st1.w, e).w]

DespawnVisit(st, e) ==
    IF st.diverged \/ e \in st.visited \/ ~Valid(st.w, e) THEN st
    ELSE IF Len(st.trace) >= WalkBudget THEN [st EXCEPT !.diverged = TRUE]
    ELSE LET kids == st.w.children[e.index]
             st1 == DespawnVisitAll([st EXCEPT !.visited = @ \cup {e},
                                               !.trace = Append(@, e)], kids)
         IN [st1 EXCEPT !.w = WorldDespawn(st1.w, e).w]

DespawnVisitAll(st, kids) ==
    IF kids = <<>> THEN st
    ELSE DespawnVisitAll(DespawnVisit(st, Head(kids)), Tail(kids))

\* The walk of despawn_recursive: the entity leaves its parent's Children,
\* then it and every descendant are despawned, each visited once.
RecursiveWalk(w, e) ==
    IF ~Valid(w, e) THEN StartWalk(w, {})
    ELSE LET p == w.parent[e.index]
             w1 == IF p # NoEntity THEN RemoveFromChildren(w, p, e) ELSE w
         IN DespawnVisit(StartWalk(w1, {}), e)

\* HierarchyManager despawn_recursive.
despawn_recursive(w, e) == RecursiveWalk(w, e).w

\* The walk of despawn_children_recursive: every descendant of the entity
\* is despawned and its Children end up empty; the entity counts as
\* visited from the start and stays.
ChildrenWalk(w, e) ==
    IF ~Valid(w, e) THEN StartWalk(w, {})
    ELSE LET st == DespawnVisitAll(StartWalk(w, {e}), w.children[e.index])
         IN [st EXCEPT !.w = [st.w EXCEPT !.children[e.index] = <<>>]]

\* HierarchyManager despawn_children_recursive.
despawn_children_recursive(w, e) == ChildrenWalk(w, e).w

LuaDespawnChildrenRecursive(w, h) ==
    IF inner(h).tag = "Err" THEN Out(w, Raised("inner"))
    ELSE Out(despawn_children_recursive(w, inner(h).val), Ok(Unit))

\* A despawn_recursive that calls the children-only operation.
LuaDespawnRecursive_ChildrenOnly(w, h) ==
    LuaDespawnChildrenRecursive(w, h)

LuaDespawnRecursive(w, h) ==
    IF inner(h).tag = "Err" THEN Out(w, Raised("inner"))
    ELSE Out(despawn_recursive(w, inner(h).val), Ok(Unit))

\* --------------------------------------- operations that take the gate
\* A spawn that hands out the slot of the new entity without its generation.
SpawnBody_DropsGeneration(w) ==
    LET o == WorldSpawn(w) IN Out(o.w, Ok(LuaEntity(Entity(o.r.index, 0))))

\* spawn: w.spawn(()).id() wrapped in a LuaEntity.
SpawnBody(w) ==
    LET o == WorldSpawn(w) IN Out(o.w, Ok(LuaEntity(o.r)))

\* A despawn that raises an error for an id that no longer resolves.
DespawnBody_RaisesWhenGone(w, h) ==
    IF inner(h).tag = "Err" THEN Out(w, Raised("inner"))
    ELSE IF ~Valid(w, inner(h).val) THEN Out(w, Raised("InvalidEntity"))
    ELSE LET o == WorldDespawn(w, inner(h).val) IN Out(o.w, Ok(o.r))

\* despawn: Ok(w.despawn(entity.inner()?)).
DespawnBody(w, h) ==
    IF inner(h).tag = "Err" THEN Out(w, Raised("inner"))
    ELSE LET o == WorldDespawn(w, inner(h).val) IN Out(o.w, Ok(o.r))

\* A push_children that attaches the children without looking whether the
\* parent is an entity of the world.
PushChildrenBody_AnyParent(w, ph, chs) ==
    IF \E i \in DOMAIN chs : inner(chs[i]).tag = "Err" THEN Out(w, Raised("inner"))
    ELSE IF inner(ph).tag = "Err" THEN Out(w, Raised("inner"))
    ELSE Out(PushChildren(w, inner(ph).val, [i \in DOMAIN chs |-> inner(chs[i]).val]),
             Ok(Unit))

\* push_children: the children resolve first, then the parent; a parent
\* that is no entity of the world is skipped.
PushChildrenBody(w, ph, chs) ==
    IF \E i \in DOMAIN chs : inner(chs[i]).tag = "Err" THEN Out(w, Raised("inner"))
    ELSE IF inner(ph).tag = "Err" THEN Out(w, Raised("inner"))
    ELSE LET children == [i \in DOMAIN chs |-> inner(chs[i]).val]
             parent == inner(ph).val
         IN IF Valid(w, parent)
            THEN Out(PushChildren(w, parent, children), Ok(Unit))
            ELSE Out(w, Ok(Unit))

\* A remove_resource that does not look at the type's capabilities.
RemoveResourceBody_Unchecked(w, t) ==
    Out([w EXCEPT !.res = @ \ {t}], Ok(Unit))

\* remove_resource: res_type.data::<ReflectResource>() or "Not a resource".
RemoveResourceBody(w, t) ==
    IF ~IsResource(t) THEN Out(w, Raised("Not a resource " \o short_name(t)))
    ELSE Out([w EXCEPT !.res = @ \ {t}], Ok(Unit))

HasResourceBody(w, t) ==
    IF ~IsResource(t) THEN Out(w, Raised("Not a resource " \o short_name(t)))
    ELSE Out(w, Ok(t \in w.res))

NoRegistration == "none"

\* TypeRegistry::get_with_short_type_path: the registered type with that
\* short path, none when no type or more than one type carries it.
get_with_short_type_path(registry, name) ==
    LET m == {t \in registry : short_name(t) = name}
    IN IF Cardinality(m) = 1 THEN CHOOSE t \in m : TRUE ELSE NoRegistration

\* TypeRegistry::get_with_type_path: the registered type with that full path.
get_with_type_path(registry, name) ==
    LET m == {t \in registry : type_name(t) = name}
    IN IF m # {} THEN CHOOSE t \in m : TRUE ELSE NoRegistration

\* A lookup that tries the short path only.
GetTypeByNameBody_NoFallback(w, name) ==
    Out(w, Ok(get_with_short_type_path(w.registry, name)))

\* get_type_by_name: the registry is a resource of the world; the short
\* path is tried first, the full path is the fallback.
GetTypeByNameBody(w, name) ==
    Out(w, Ok(IF get_with_short_type_path(w.registry, name) # NoRegistration
              THEN get_with_short_type_path(w.registry, name)
              ELSE get_with_type_path(w.registry, name)))

\* ------------------------------------------------------- the gate
\* Every operation taking a read acquisition.
AcquireKind_AllRead(op) == "read"

\* world.read() / world.write() as each operation's first statement.
AcquireKind(op) ==
    CASE op = "get_type_by_name" -> "read"
      [] op = "has_resource" -> "read"
      [] op = "remove_resource" -> "write"
      [] op = "push_children" -> "write"
      [] op = "spawn" -> "write"
      [] op = "despawn" -> "write"

GatedOps ==
    {"get_type_by_name", "has_resource", "remove_resource", "push_children",
     "spawn", "despawn"}

\* The bodies of push_children and despawn asking for a read acquisition
\* when they resolve their entity arguments.
NestedAcquire_InnerReads(op) ==
    IF op \in {"push_children", "despawn"} THEN {"read"} ELSE {}

\* The acquisitions an operation's body asks for while its guard is held.
\* Every body works on its guard w: it calls the registry, the type data,
\* LuaEntity::inner and the engine's entity methods, and no operation of
\* the world that takes the gate.
NestedAcquire(op) == {}

\* The gate g = [readers, writer] lets a reader in while no writer holds it,
\* and a writer in while nobody holds it.
CanAcquire(g, kind) ==
    IF kind = "read" THEN g.writer = {} ELSE g.writer = {} /\ g.readers = {}

Acquire(g, c, kind) ==
    IF kind = "read" THEN [g EXCEPT !.readers = @ \cup {c}]
    ELSE [g EXCEPT !.writer = @ \cup {c}]

\* The guard released only on the way out with a value.
DropGuard_OnlyOnSuccess(g, c, r) ==
    IF r.tag = "Raised" THEN g
    ELSE [readers |-> g.readers \ {c}, writer |-> g.writer \ {c}]

\* The guard is a local of the operation: it is dropped when the operation
\* returns, with a value or with a raised error alike.
DropGuard(g, c, r) == [readers |-> g.readers \ {c}, writer |-> g.writer \ {c}]

\* ------------------------------------------- QueryBuilder / QueryResult
\* The component lists a script passes to query, with and without.
FilterArgs == SeqsUpTo(CompTypes, MaxFilterLen)

\* The component lists a script passes to query.
ComponentArgs == SeqsUpTo(CompTypes, MaxComponents)

NoBuilder == [components |-> <<>>, with |-> <<>>, without |-> <<>>, made |-> FALSE]

\* query: LuaQueryBuilder::new(world).components(components).clone().
LuaQuery(components) ==
    [components |-> components, with |-> <<>>, without |-> <<>>, made |-> TRUE]

\* with handing its components to the excluding filter.
LuaWith_Excludes(b, components) == [b EXCEPT !.without = @ \o components]

\* with: s.with(components); the builder's own filter grows.
LuaWith(b, components) == [b EXCEPT !.with = @ \o components]

\* without: s.without(components).
LuaWithout(b, components) == [b EXCEPT !.without = @ \o components]

\* ScriptQueryBuilder's Clone: a builder of its own with the same component
\* list and filters.
clone(b) ==
    [components |-> b.components, with |-> b.with, without |-> b.without, made |-> b.made]

\* with / without returning the builder they were called on.
Returned_SameObject(s) == [b |-> s, alias |-> TRUE]

\* Ok(s.clone()): what with and without return is a builder of its own;
\* alias tells whether a call on it is a call on the receiver.
Returned(s) == [b |-> clone(s), alias |-> FALSE]

NoCopy == [b |-> NoBuilder, alias |-> FALSE]

Required(b) == Range(b.components) \cup Range(b.with)

Excluded(b) == Range(b.without)

Ambiguous(b) == Required(b) \cap Excluded(b) # {}

Matches(w, b) ==
    {e \in LiveEntities(w) :
        Required(b) \subseteq w.comps[e.index] /\ Excluded(b) \cap w.comps[e.index] = {}}

\* One ScriptQueryResult: the entity and one value per declared component.
QueryResult(b, e) ==
    [entity |-> e, values |-> [i \in DOMAIN b.components |-> Value(b.components[i], e)]]

\* Every ordering of a finite set as a sequence without repetition.
Orders(S) ==
    {q \in [1 .. Cardinality(S) -> S] : \A i, j \in DOMAIN q : q[i] = q[j] => i = j}

\* build(): AmbiguousFilter when a type is required and excluded; otherwise
\* the matching entities in storage order, which the caller cannot choose.
BuildOutcomes(w, b) ==
    IF Ambiguous(b) THEN {Err("AmbiguousFilter")}
    ELSE {Ok([i \in DOMAIN q |-> QueryResult(b, q[i])]) : q \in Orders(Matches(w, b))}

\* A marshalling that pushes the entity behind the values.
into_lua_multi_EntityLast(qr) == qr.values \o <<LuaEntity(qr.entity)>>

\* IntoLuaMulti for LuaQueryResult: the values in their order, then the
\* entity pushed to the front.
into_lua_multi(qr) == <<LuaEntity(qr.entity)>> \o qr.values

NoCursor == [query_result |-> <<>>, len |-> 0, curr_idx |-> 0, made |-> FALSE]

\* iter turning a failed build() into an empty result.
LuaIter_SwallowsError(built) ==
    LET q == IF built.tag = "Err" THEN <<>> ELSE built.val
    IN [cursor |-> [query_result |-> q, len |-> Len(q), curr_idx |-> 0, made |-> TRUE],
        r |-> Ok("function")]

\* iter: build() or a raised error; then len and curr_idx = 0 are captured
\* by the stepping function together with the results.
LuaIter(built) ==
    IF built.tag = "Err" THEN [cursor |-> NoCursor, r |-> Raised(built.val)]
    ELSE [cursor |-> [query_result |-> built.val, len |-> Len(built.val),
                      curr_idx |-> 0, made |-> TRUE],
          r |-> Ok("function")]

NoResult == [entity |-> NoEntity, values |-> <<>>]

Some(qr) == [tag |-> "Some", val |-> [qr EXCEPT !.entity = LuaEntity(qr.entity)]]

None == [tag |-> "None", val |-> NoResult]

Panic == [tag |-> "Panic", val |-> NoResult]

\* query_result.get(curr_idx).unwrap(): a panic when the index is past the end.
GetUnwrap(q, idx) == IF idx + 1 \in DOMAIN q THEN Some(q[idx + 1]) ELSE Panic

\* The stepping function with an off-by-one bound: curr_idx <= len.
LuaStep_OffByOne(w, c) ==
    [cursor |-> [c EXCEPT !.curr_idx = @ + 1],
     r |-> IF c.curr_idx <= c.len THEN GetUnwrap(c.query_result, c.curr_idx) ELSE None]

\* The stepping function looking its entity up in the world again.
LuaStep_ReadsWorld(w, c) ==
    [cursor |-> [c EXCEPT !.curr_idx = @ + 1],
     r |-> IF c.curr_idx < c.len /\ Valid(w, c.query_result[c.curr_idx + 1].entity)
           THEN GetUnwrap(c.query_result, c.curr_idx) ELSE None]

\* The stepping function starting over once it has reported the end.
LuaStep_Restarts(w, c) ==
    [cursor |-> [c EXCEPT !.curr_idx = IF @ < c.len THEN @ + 1 ELSE 0],
     r |-> IF c.curr_idx < c.len THEN GetUnwrap(c.query_result, c.curr_idx) ELSE None]

\* One call of the stepping function, in world w (which it does not read):
\* the result at curr_idx while curr_idx < len, QueryResultTuple::None
\* after; curr_idx grows either way.
LuaStep(w, c) ==
    [cursor |-> [c EXCEPT !.curr_idx = @ + 1],
     r |-> IF c.curr_idx < c.len THEN GetUnwrap(c.query_result, c.curr_idx) ELSE None]

\* ------------------------------------------------------------- state
VARIABLES
    world,      \* the ECS world behind the gate
    readers,    \* callers holding a read acquisition of the gate
    writer,     \* callers holding a write acquisition of the gate
    pc,         \* per caller: idle, waiting for the gate, or holding it, and in which operation
    builder,    \* the script's LuaQueryBuilder, or NoBuilder
    copy,       \* what the last with / without on the builder returned, or NoCopy
    cursor,     \* the stepping function returned by iter, or NoCursor
    asked,      \* history: the types the script required and excluded so far
    built,      \* history: the results build() returned for the current cursor
    yields,     \* history: what each step of the current cursor returned
    muts,       \* history: world-changing calls made so far, where they are bounded
    purged,     \* history: the ids the last call removed, when it was a
                \* despawn_recursive on a well-formed hierarchy
    spawned,    \* history: every id a spawn has returned
    walk,       \* history: the visits of the last recursive despawn, in
                \* their order, and whether it ran out of its budget
    last        \* history: the last finished script call and its result

vars == <<world, readers, writer, pc, builder, copy, cursor, asked, built, yields, muts, purged, spawned, walk, last>>

Callers == 1 .. NumCallers

Idle == [at |-> "idle", op |-> "-"]

NoHandle == BrokenEntity

NoWalk == [trace |-> <<>>, diverged |-> FALSE]

Visits(st) == [trace |-> st.trace, diverged |-> st.diverged]

\* A finished call: its arguments, its result, and whether the world it
\* left differs from the world it found.
Call(op, h, t, kids, r, changed) ==
    [op |-> op, ent |-> h, ty |-> t, kids |-> kids, res |-> r, changed |-> changed]

NoFilter == [required |-> {}, excluded |-> {}]

GateFree == readers = {} /\ writer = {}

Init ==
    /\ world = EmptyWorld
    /\ readers = {}
    /\ writer = {}
    /\ pc = [c \in Callers |-> Idle]
    /\ builder = NoBuilder
    /\ copy = NoCopy
    /\ cursor = NoCursor
    /\ asked = NoFilter
    /\ built = <<>>
    /\ yields = <<>>
    /\ muts = 0
    /\ purged = {}
    /\ spawned = LiveEntities(world)
    /\ walk = NoWalk
    /\ last = Call("init", NoHandle, NoType, <<>>, Ok(Unit), FALSE)

\* The hierarchy is well formed: links go both ways between entities that
\* resolve, no entity is listed twice, and no entity is its own ancestor.
WellFormed(w) ==
    \A e \in LiveEntities(w) :
        /\ \A i \in DOMAIN w.children[e.index] :
              LET c == w.children[e.index][i]
              IN /\ Valid(w, c)
                 /\ w.parent[c.index] = e
                 /\ \A j \in DOMAIN w.children[e.index] :
                       w.children[e.index][j] = c => j = i
        /\ w.parent[e.index] # NoEntity =>
              /\ Valid(w, w.parent[e.index])
              /\ e \in Range(w.children[w.parent[e.index].index])
        /\ e \notin Reach(w, Range(w.children[e.index]), {})

\* A script call made while no other caller is inside the world: the
\* acquisition it takes is released when it returns.
Sequential == GateFree /\ UNCHANGED <<readers, writer, pc>>

QueryIdle == UNCHANGED <<builder, copy, cursor, asked, built, yields>>

Finish(o, op, h, t, kids) ==
    /\ world' = o.w
    /\ spawned' = IF op = "spawn" /\ o.r.tag = "Ok"
                  THEN spawned \cup {o.r.val.entity}
                  ELSE spawned
    /\ last' = Call(op, h, t, kids, o.r, o.w # world)

Spawn ==
    /\ Sequential /\ QueryIdle /\ purged' = {} /\ walk' = NoWalk
    /\ CanSpawn(world)
    /\ Finish(SpawnBody(world), "spawn", NoHandle, NoType, <<>>)

Despawn ==
    /\ Sequential /\ QueryIdle /\ purged' = {} /\ walk' = NoWalk
    /\ \E h \in Handles(world) :
          Finish(DespawnBody(world, h), "despawn", h, NoType, <<>>)

AddDefaultComponent ==
    /\ Sequential /\ QueryIdle /\ purged' = {} /\ walk' = NoWalk
    /\ \E h \in Handles(world), t \in Types :
          Finish(LuaAddDefaultComponent(world, h, t), "add_default_component", h, t, <<>>)

GetComponent ==
    /\ Sequential /\ QueryIdle /\ purged' = {} /\ walk' = NoWalk
    /\ \E h \in Handles(world), t \in Types :
          Finish(LuaGetComponent(world, h, t), "get_component", h, t, <<>>)

HasComponent ==
    /\ Sequential /\ QueryIdle /\ purged' = {} /\ walk' = NoWalk
    /\ \E h \in Handles(world), t \in Types :
          Finish(LuaHasComponent(world, h, t), "has_component", h, t, <<>>)

RemoveComponent ==
    /\ Sequential /\ QueryIdle /\ purged' = {} /\ walk' = NoWalk
    /\ \E h \in Handles(world), t \in Types :
          Finish(LuaRemoveComponent(world, h, t), "remove_component", h, t, <<>>)

\* The child ids a call passes: entities of the world other than the parent.
ChildArgs(w, ph) ==
    {kids \in SeqsUpTo({LuaEntity(e) : e \in LiveEntities(w)} \cup {BrokenEntity},
                       MaxChildrenArg) :
        kids # <<>> /\ ph \notin Range(kids)}

PushChildrenCall ==
    /\ Sequential /\ QueryIdle /\ purged' = {} /\ walk' = NoWalk
    /\ \E ph \in Handles(world) : \E kids \in ChildArgs(world, ph) :
          Finish(PushChildrenBody(world, ph, kids), "push_children", ph, NoType, kids)

DespawnRecursive ==
    /\ Sequential /\ QueryIdle
    /\ \E h \in Handles(world) :
          /\ Finish(LuaDespawnRecursive(world, h), "despawn_recursive", h, NoType, <<>>)
          /\ purged' = IF h.resolves /\ WellFormed(world)
                       THEN Descendants(world, h.entity)
                       ELSE {}
          /\ walk' = IF h.resolves THEN Visits(RecursiveWalk(world, h.entity)) ELSE NoWalk

DespawnChildrenRecursive ==
    /\ Sequential /\ QueryIdle /\ purged' = {}
    /\ \E h \in Handles(world) :
          /\ Finish(LuaDespawnChildrenRecursive(world, h), "despawn_children_recursive",
                    h, NoType, <<>>)
          /\ walk' = IF h.resolves THEN Visits(ChildrenWalk(world, h.entity)) ELSE NoWalk

GetTypeByName ==
    /\ Sequential /\ QueryIdle /\ purged' = {} /\ walk' = NoWalk
    /\ \E name \in TypeNames :
          Finish(GetTypeByNameBody(world, name), "get_type_by_name", NoHandle, name, <<>>)

\* The type registrations a script can hold: those of the registered types.
HasResource ==
    /\ Sequential /\ QueryIdle /\ purged' = {} /\ walk' = NoWalk
    /\ \E t \in world.registry :
          Finish(HasResourceBody(world, t), "has_resource", NoHandle, t, <<>>)

RemoveResource ==
    /\ Sequential /\ QueryIdle /\ purged' = {} /\ walk' = NoWalk
    /\ \E t \in world.registry :
          Finish(RemoveResourceBody(world, t), "remove_resource", NoHandle, t, <<>>)

\* The index is the position insert_children receives, counted from 0.
InsertChild ==
    /\ Sequential /\ QueryIdle /\ purged' = {} /\ walk' = NoWalk
    /\ \E ph \in Handles(world) : \E kids \in ChildArgs(world, ph) : \E index \in 0 .. MaxIndex :
          /\ Len(kids) = 1
          /\ Finish(LuaInsertChild(world, ph, index, kids[1]), "insert_child", ph, index, kids)

\* ------------------------------------------------------- query calls
NoGate == UNCHANGED <<readers, writer, pc>>

WorldIdle == UNCHANGED <<world, purged, spawned, walk>>

Query ==
    /\ NoGate /\ WorldIdle /\ UNCHANGED <<cursor, built, yields>>
    /\ \E components \in ComponentArgs :
          /\ builder' = LuaQuery(components)
          /\ copy' = NoCopy
          /\ asked' = [required |-> Range(components), excluded |-> {}]
          /\ last' = Call("query", NoHandle, NoType, components, Ok("builder"), FALSE)

With ==
    /\ NoGate /\ WorldIdle /\ UNCHANGED <<cursor, built, yields>>
    /\ builder.made
    /\ \E components \in FilterArgs \ {<<>>} :
          /\ Len(builder.with) + Len(components) <= MaxFilterLen
          /\ builder' = LuaWith(builder, components)
          /\ copy' = Returned(builder')
          /\ asked' = [asked EXCEPT !.required = @ \cup Range(components)]
          /\ last' = Call("with", NoHandle, NoType, components, Ok("builder"), FALSE)

Without ==
    /\ NoGate /\ WorldIdle /\ UNCHANGED <<cursor, built, yields>>
    /\ builder.made
    /\ \E components \in FilterArgs \ {<<>>} :
          /\ Len(builder.without) + Len(components) <= MaxFilterLen
          /\ builder' = LuaWithout(builder, components)
          /\ copy' = Returned(builder')
          /\ asked' = [asked EXCEPT !.excluded = @ \cup Range(components)]
          /\ last' = Call("without", NoHandle, NoType, components, Ok("builder"), FALSE)

\* with called on the builder the last with / without returned.
WithOnCopy ==
    /\ NoGate /\ WorldIdle /\ UNCHANGED <<cursor, built, yields>>
    /\ copy.b.made
    /\ \E components \in FilterArgs \ {<<>>} :
          /\ Len(copy.b.with) + Len(components) <= MaxFilterLen
          /\ IF copy.alias
             THEN /\ builder' = LuaWith(builder, components)
                  /\ copy' = Returned(builder')
                  /\ asked' = [asked EXCEPT !.required = @ \cup Range(components)]
             ELSE /\ copy' = [copy EXCEPT !.b = LuaWith(copy.b, components)]
                  /\ UNCHANGED <<builder, asked>>
          /\ last' = Call("copy:with", NoHandle, NoType, components, Ok("builder"), FALSE)

\* without called on the builder the last with / without returned.
WithoutOnCopy ==
    /\ NoGate /\ WorldIdle /\ UNCHANGED <<cursor, built, yields>>
    /\ copy.b.made
    /\ \E components \in FilterArgs \ {<<>>} :
          /\ Len(copy.b.without) + Len(components) <= MaxFilterLen
          /\ IF copy.alias
             THEN /\ builder' = LuaWithout(builder, components)
                  /\ copy' = Returned(builder')
                  /\ asked' = [asked EXCEPT !.excluded = @ \cup Range(components)]
             ELSE /\ copy' = [copy EXCEPT !.b = LuaWithout(copy.b, components)]
                  /\ UNCHANGED <<builder, asked>>
          /\ last' = Call("copy:without", NoHandle, NoType, components, Ok("builder"), FALSE)

\* iter: build() runs against the world under its own acquisition; a
\* failure leaves the script without a new stepping function.
Iter ==
    /\ Sequential /\ WorldIdle /\ UNCHANGED <<builder, copy, asked>>
    /\ builder.made
    /\ \E out \in BuildOutcomes(world, builder) :
          LET o == LuaIter(out)
          IN /\ cursor' = IF o.r.tag = "Ok" THEN o.cursor ELSE cursor
             /\ built' = IF out.tag = "Ok" THEN out.val ELSE built
             /\ yields' = IF o.r.tag = "Ok" THEN <<>> ELSE yields
             /\ last' = Call("iter", NoHandle, NoType, <<>>, o.r, FALSE)

Step ==
    /\ NoGate /\ WorldIdle /\ UNCHANGED <<builder, copy, asked, built>>
    /\ cursor.made
    /\ cursor.curr_idx < MaxSteps
    /\ LET o == LuaStep(world, cursor)
       IN /\ cursor' = o.cursor
          /\ yields' = Append(yields, o.r)
          /\ last' = Call("step", NoHandle, NoType, <<>>, o.r, FALSE)

\* ------------------------------------------- callers sharing the gate
Gate == [readers |-> readers, writer |-> writer]

\* A caller on some thread calls one of the operations.
Enter(c) ==
    /\ pc[c] = Idle
    /\ \E op \in GatedOps :
          /\ AcquireKind(op) = "write" => muts < MaxWrites
          /\ muts' = IF AcquireKind(op) = "write" THEN muts + 1 ELSE muts
          /\ pc' = [pc EXCEPT ![c] = [at |-> "waiting", op |-> op]]
    /\ UNCHANGED <<world, readers, writer, purged, spawned, walk, last>>
    /\ QueryIdle

\* world.read() / world.write() returns once the gate lets the caller in.
Begin(c) ==
    /\ pc[c].at = "waiting"
    /\ CanAcquire(Gate, AcquireKind(pc[c].op))
    /\ readers' = Acquire(Gate, c, AcquireKind(pc[c].op)).readers
    /\ writer' = Acquire(Gate, c, AcquireKind(pc[c].op)).writer
    /\ pc' = [pc EXCEPT ![c].at = "holding"]
    /\ UNCHANGED <<world, muts, purged, spawned, walk, last>>
    /\ QueryIdle

Inside(c, op) == pc[c] = [at |-> "holding", op |-> op]

\* The operation's body runs and the operation returns.
Return(c, o, op, h, t, kids) ==
    /\ \A kind \in NestedAcquire(op) : CanAcquire(Gate, kind)
    /\ Finish(o, op, h, t, kids)
    /\ readers' = DropGuard(Gate, c, o.r).readers
    /\ writer' = DropGuard(Gate, c, o.r).writer
    /\ pc' = [pc EXCEPT ![c] = Idle]
    /\ UNCHANGED <<muts, purged, walk>>
    /\ QueryIdle

EndGetTypeByName(c) ==
    /\ Inside(c, "get_type_by_name")
    /\ \E name \in TypeNames :
          Return(c, GetTypeByNameBody(world, name), "get_type_by_name", NoHandle, name, <<>>)

EndHasResource(c) ==
    /\ Inside(c, "has_resource")
    /\ \E t \in Types :
          Return(c, HasResourceBody(world, t), "has_resource", NoHandle, t, <<>>)

EndRemoveResource(c) ==
    /\ Inside(c, "remove_resource")
    /\ \E t \in Types :
          Return(c, RemoveResourceBody(world, t), "remove_resource", NoHandle, t, <<>>)

EndPushChildren(c) ==
    /\ Inside(c, "push_children")
    /\ \E ph \in Handles(world) : \E kids \in ChildArgs(world, ph) :
          Return(c, PushChildrenBody(world, ph, kids), "push_children", ph, NoType, kids)

EndSpawn(c) ==
    /\ Inside(c, "spawn")
    /\ CanSpawn(world)
    /\ Return(c, SpawnBody(world), "spawn", NoHandle, NoType, <<>>)

EndDespawn(c) ==
    /\ Inside(c, "despawn")
    /\ \E h \in Handles(world) :
          Return(c, DespawnBody(world, h), "despawn", h, NoType, <<>>)

\* ------------------------------------------------------ specifications
\* Script calls on entities and their components, one at a time.
Next ==
    /\ UNCHANGED muts
    /\ \/ Spawn
       \/ Despawn
       \/ AddDefaultComponent
       \/ GetComponent
       \/ HasComponent
       \/ RemoveComponent

Spec == Init /\ [][Next]_vars

\* Script calls on entities and the hierarchy, one at a time.
HierNext ==
    /\ UNCHANGED muts
    /\ \/ Spawn
       \/ PushChildrenCall
       \/ DespawnRecursive

HierSpec == Init /\ [][HierNext]_vars

\* Worlds a script can find: the first k slots hold entities that were
\* spawned and given components, nothing was despawned or linked yet.
SampleWorlds ==
    UNION {{[EmptyWorld EXCEPT !.live = [s \in Slots |-> s <= k], !.comps = cs] :
               cs \in {f \in [Slots -> SUBSET CompTypes] :
                          \A s \in Slots : s > k => f[s] = {}}} :
           k \in 0 .. NumSlots}

BuildInit ==
    /\ world \in SampleWorlds
    /\ readers = {}
    /\ writer = {}
    /\ pc = [c \in Callers |-> Idle]
    /\ builder = NoBuilder
    /\ copy = NoCopy
    /\ cursor = NoCursor
    /\ asked = NoFilter
    /\ built = <<>>
    /\ yields = <<>>
    /\ muts = 0
    /\ purged = {}
    /\ spawned = LiveEntities(world)
    /\ walk = NoWalk
    /\ last = Call("init", NoHandle, NoType, <<>>, Ok(Unit), FALSE)

\* Building queries: query, with, without and iter over a world at rest.
BuildNext ==
    /\ UNCHANGED muts
    /\ \/ Query
       \/ With
       \/ Without
       \/ Iter

BuildSpec == BuildInit /\ [][BuildNext]_vars

GateInit ==
    /\ BuildInit
    /\ Cardinality(LiveEntities(world)) = NumSlots - 1
    /\ \A s \in Slots : world.comps[s] = {}

\* Callers on several threads inside the operations that take the gate.
GateNext ==
    \E c \in Callers :
        \/ Enter(c)
        \/ Begin(c)
        \/ EndGetTypeByName(c)
        \/ EndHasResource(c)
        \/ EndRemoveResource(c)
        \/ EndPushChildren(c)
        \/ EndSpawn(c)
        \/ EndDespawn(c)

GateSpec == GateInit /\ [][GateNext]_vars

CursorInit ==
    /\ BuildInit
    /\ Cardinality(LiveEntities(world)) = NumSlots - 1

\* Stepping a built query while the script goes on changing the world.
CursorNext ==
    \/ /\ UNCHANGED muts
       /\ \/ Query
          \/ Iter
          \/ Step
    \/ /\ muts < MaxMutations
       /\ muts' = muts + 1
       /\ \/ Spawn
          \/ Despawn
          \/ AddDefaultComponent
          \/ RemoveComponent
          \/ DespawnRecursive

CursorSpec == CursorInit /\ [][CursorNext]_vars

\* The host has registered any of the registrable types, and the resource
\* is in the world or not.
TypeInit ==
    /\ \E reg \in SUBSET Registrable, rs \in SUBSET ResTypes :
          world = [EmptyWorld EXCEPT !.registry = reg, !.res = rs]
    /\ readers = {}
    /\ writer = {}
    /\ pc = [c \in Callers |-> Idle]
    /\ builder = NoBuilder
    /\ copy = NoCopy
    /\ cursor = NoCursor
    /\ asked = NoFilter
    /\ built = <<>>
    /\ yields = <<>>
    /\ muts = 0
    /\ purged = {}
    /\ spawned = {}
    /\ walk = NoWalk
    /\ last = Call("init", NoHandle, NoType, <<>>, Ok(Unit), FALSE)

\* Script calls that look types up by name and use them on resources.
TypeNext ==
    /\ UNCHANGED muts
    /\ \/ GetTypeByName
       \/ HasResource
       \/ RemoveResource

TypeSpec == TypeInit /\ [][TypeNext]_vars

\* Script calls that spawn entities and attach them to parents.
InsertNext ==
    /\ UNCHANGED muts
    /\ \/ Spawn
       \/ PushChildrenCall
       \/ InsertChild

InsertSpec == Init /\ [][InsertNext]_vars

\* Queries with a component list and a with() filter, built and stepped
\* over a world at rest.
TupleNext ==
    /\ UNCHANGED muts
    /\ \/ Query
       \/ With
       \/ Iter
       \/ Step

TupleSpec == BuildInit /\ [][TupleNext]_vars

\* Script calls that build hierarchies, cyclic ones included, and take
\* them down recursively.
WalkNext ==
    /\ UNCHANGED muts
    /\ \/ Spawn
       \/ PushChildrenCall
       \/ DespawnRecursive
       \/ DespawnChildrenRecursive

WalkSpec == Init /\ [][WalkNext]_vars

\* Filters added to a builder and to the copies with / without return,
\* and queries built from the builder.
CopyNext ==
    /\ UNCHANGED muts
    /\ \/ Query
       \/ With
       \/ Without
       \/ WithOnCopy
       \/ WithoutOnCopy
       \/ Iter

CopySpec == CursorInit /\ [][CopyNext]_vars

\* ------------------------------------------------------------ claims
\* C1: a cursor over n results answers every step after the n-th with the
\* exhausted marker, never with a panic or an error, and once it has
\* answered exhausted it answers exhausted on every later step.
C1_ExhaustedForGood ==
    /\ \A k \in DOMAIN yields : yields[k].tag \in {"Some", "None"}
    /\ \A k \in DOMAIN yields : k > Len(built) => yields[k].tag = "None"
    /\ \A k, j \in DOMAIN yields : yields[k].tag = "None" /\ j > k => yields[j].tag = "None"

\* A cursor over at least one result was stepped twice past its end.
C1_Witness ==
    /\ cursor.made
    /\ Len(built) >= 1
    /\ Len(yields) >= Len(built) + 2
    /\ last.op = "step"

\* C2: at any moment either no writer holds the gate, or exactly one does
\* and no reader does; a caller inside spawn, despawn, remove_resource or
\* push_children is inside alone.
C2_WriterAlone ==
    /\ writer = {} \/ (Cardinality(writer) = 1 /\ readers = {})
    /\ \A c, d \in Callers :
          (/\ c # d
           /\ pc[c].at = "holding"
           /\ pc[c].op \in {"spawn", "despawn", "remove_resource", "push_children"})
          => pc[d].at # "holding"

\* One caller holds the write acquisition while another waits to get in.
C2_Witness ==
    \E c, d \in Callers :
        /\ pc[c].at = "holding" /\ pc[c].op = "spawn" /\ writer = {c}
        /\ pc[d].at = "waiting"

\* C3: a caller that is not inside an operation holds nothing of the gate,
\* whether its operation returned a value or raised an error.
C3_NothingLeftHeld ==
    \A c \in Callers : pc[c].at # "holding" => c \notin readers \cup writer

\* push_children has just failed on a child handle that does not resolve,
\* and the gate is free again.
C3_Witness ==
    /\ last.op = "push_children"
    /\ last.res.tag = "Raised"
    /\ readers = {} /\ writer = {}

\* C4: once add_default_component(E, T) has succeeded, has_component(E, T)
\* answers true and get_component(E, T) a value of type T; when the next
\* call is remove_component(E, T), has_component(E, T) answers false after
\* it and get_component(E, T) answers nil, without an error.
C4_AddThenRemove ==
    /\ [](last.op = "add_default_component" /\ last.res.tag = "Ok"
          => LET has == LuaHasComponent(world, last.ent, last.ty).r
                 got == LuaGetComponent(world, last.ent, last.ty).r
             IN /\ has.tag = "Ok" /\ has.val = TRUE
                /\ got.tag = "Ok" /\ got.val.ty = last.ty /\ got.val.of = last.ent.entity)
    /\ [][(/\ last.op = "add_default_component" /\ last.res.tag = "Ok"
           /\ last'.op = "remove_component"
           /\ last'.ent = last.ent /\ last'.ty = last.ty)
          => LET has == LuaHasComponent(world', last.ent, last.ty).r
                 got == LuaGetComponent(world', last.ent, last.ty).r
             IN /\ last'.res.tag = "Ok"
                /\ has.tag = "Ok" /\ has.val = FALSE
                /\ got.tag = "Ok" /\ got.val = Nil]_vars

\* remove_component has just taken away a component that
\* add_default_component had put on a live entity.
C4_Witness ==
    /\ last.op = "remove_component"
    /\ last.res.tag = "Ok"
    /\ last.changed
    /\ Valid(world, last.ent.entity)

\* C5: remove_component(E, T) on a live entity without T raises nothing and
\* leaves the world as it was; so does a second remove_component(E, T)
\* right after a first.
C5_RemoveAbsentIsNoOp ==
    [][/\ (/\ last'.op = "remove_component"
           /\ last'.ent.resolves
           /\ Valid(world, last'.ent.entity)
           /\ IsComponent(last'.ty)
           /\ last'.ty \notin world.comps[last'.ent.entity.index])
          => (last'.res.tag = "Ok" /\ world' = world)
       /\ (/\ last.op = "remove_component" /\ last.res.tag = "Ok"
           /\ last'.op = "remove_component"
           /\ last'.ent = last.ent /\ last'.ty = last.ty)
          => (last'.res.tag = "Ok" /\ world' = world)]_vars

\* remove_component has just returned from a live entity whose components
\* it did not change.
C5_Witness ==
    /\ last.op = "remove_component"
    /\ last.res.tag = "Ok"
    /\ ~last.changed
    /\ Valid(world, last.ent.entity)
    /\ world.comps[last.ent.entity.index] # {}

\* C6: a query that builds returns exactly the live entities that have
\* every type the script required (through query and with) and none it
\* excluded (through without), each of them once.
C6_ExactlyTheMatches ==
    (last.op = "iter" /\ last.res.tag = "Ok") =>
        /\ {built[i].entity : i \in DOMAIN built} =
              {e \in LiveEntities(world) :
                  /\ asked.required \subseteq world.comps[e.index]
                  /\ asked.excluded \cap world.comps[e.index] = {}}
        /\ \A i, j \in DOMAIN built : built[i].entity = built[j].entity => i = j
        /\ cursor.query_result = built

\* Required {A, B} over entities with A+B, A and B: one entity is returned.
C6_Witness ==
    /\ last.op = "iter" /\ last.res.tag = "Ok"
    /\ asked.required = {CompNames[1], CompNames[2]}
    /\ \E e1, e2, e3 \in LiveEntities(world) :
          /\ world.comps[e1.index] = {CompNames[1], CompNames[2]}
          /\ world.comps[e2.index] = {CompNames[1]}
          /\ world.comps[e3.index] = {CompNames[2]}
          /\ {built[i].entity : i \in DOMAIN built} = {e1}

\* C7: iter on a builder whose script required and excluded the same type
\* raises AmbiguousFilter, hands out no stepping function and leaves the
\* world as it was.
C7_AmbiguousFilterRejected ==
    [][(last'.op = "iter" /\ asked.required \cap asked.excluded # {})
       => /\ last'.res.tag = "Raised"
          /\ last'.res.val = "AmbiguousFilter"
          /\ cursor' = cursor
          /\ world' = world]_vars

\* iter has just failed on a filter with a type on both sides.
C7_Witness ==
    /\ last.op = "iter"
    /\ last.res.tag = "Raised"
    /\ asked.required \cap asked.excluded # {}
    /\ LiveEntities(world) # {}

\* C8: whatever the script does to the world after iter, the k-th step of
\* the cursor yields the k-th result build() returned: the same entity, at
\* the same position, with the same component values.
C8_YieldsFixedAtBuild ==
    \A k \in DOMAIN yields :
        k <= Len(built) =>
            /\ yields[k].tag = "Some"
            /\ yields[k].val.entity = LuaEntity(built[k].entity)
            /\ yields[k].val.values = built[k].values

\* A step has just yielded an entity that was despawned after the build.
C8_Witness ==
    /\ last.op = "step"
    /\ last.res.tag = "Some"
    /\ muts > 0
    /\ ~Valid(world, last.res.val.entity.entity)

\* The claim as written: a cursor stepped to exhaustion starts over, so the
\* steps after the exhausted marker repeat the first pass.
C9_Restartable ==
    \A k \in DOMAIN yields :
        k > Len(built) + 1 =>
            yields[k].tag = yields[k - (Len(built) + 1)].tag

\* C9 (amended): a cursor runs through the results of its build() once.
\* Every step moves its index forward over the same results, so a step
\* after the end yields exhausted and never an element again; a further
\* pass takes a new iter(), which starts at the first element of a query
\* built against the world as it is at that call.
C9_SinglePass ==
    [][/\ last'.op = "step"
          => /\ cursor'.curr_idx = cursor.curr_idx + 1
             /\ cursor'.query_result = cursor.query_result
             /\ cursor'.len = cursor.len
             /\ cursor.curr_idx >= Len(cursor.query_result) => last'.res.tag = "None"
       /\ (last'.op = "iter" /\ last'.res.tag = "Ok")
          => /\ cursor'.curr_idx = 0
             /\ {cursor'.query_result[i].entity : i \in DOMAIN cursor'.query_result}
                   = Matches(world, builder)]_vars

\* A cursor over at least one result was stepped past the exhausted marker.
C9_Witness ==
    /\ cursor.made
    /\ cursor.len >= 1
    /\ cursor.curr_idx > cursor.len + 1
    /\ yields[Len(yields)].tag = "None"

C11_DespawnTrueThenFalse ==
    [][(last'.op = "despawn" /\ last'.ent.resolves)
       => LET e == last'.ent.entity
          IN /\ last'.res.tag = "Ok"
             /\ last'.res.val = Valid(world, e)
             /\ ~Valid(world', e)
             /\ ~Valid(world, e) => world' = world
             /\ (last.op = "despawn" /\ last.ent = last'.ent)
                   => (last'.res.val = FALSE /\ world' = world)]_vars

\* A despawn of an id that was already gone has just answered false.
C11_Witness ==
    /\ last.op = "despawn"
    /\ last.ent.resolves
    /\ last.res.tag = "Ok"
    /\ last.res.val = FALSE
    /\ ~last.changed
    /\ last.ent.entity \in Issued(world)

\* C12: the id a spawn returns differs from every id an earlier spawn
\* returned, also when the slot it uses was freed by a despawn in between;
\* it resolves to the new entity, and no id that had stopped resolving
\* resolves again because of it.
C12_FreshIds ==
    /\ [](spawned = Issued(world))
    /\ [][(last'.op = "spawn" /\ last'.res.tag = "Ok")
          => LET e == last'.res.val.entity
             IN /\ e \notin spawned
                /\ Valid(world', e)
                /\ ~Valid(world, e)
                /\ \A d \in spawned : ~Valid(world, d) => ~Valid(world', d)]_vars

\* A spawn has just reused the slot of a despawned entity: the id it
\* returned shares its index with a stale id and differs from it.
C12_Witness ==
    /\ last.op = "spawn"
    /\ last.res.tag = "Ok"
    /\ \E d \in spawned :
          /\ d.index = last.res.val.entity.index
          /\ d # last.res.val.entity
          /\ ~Valid(world, d)
          /\ Valid(world, last.res.val.entity)

\* The claim as written: whatever the registry holds, looking a registered
\* type up by its short name or by its full path answers that type.
C13_BothNamesResolve ==
    last.op = "get_type_by_name"
        => \A t \in world.registry :
              (last.ty = short_name(t) \/ last.ty = type_name(t))
                  => (last.res.tag = "Ok" /\ last.res.val = t)

\* C13 (amended): looking a registered type up by its full path answers that
\* type, for every registry content.  Looking it up by its short name
\* answers that type when no other registered type has the same short
\* name; when several registered types share the short name the lookup
\* answers nil.  A name that is no registered type's short name or full
\* path answers nil.  No lookup raises an error or changes the world.
C13_ResolveByName ==
    last.op = "get_type_by_name"
        => /\ last.res.tag = "Ok"
           /\ ~last.changed
           /\ \A t \in world.registry :
                 /\ last.ty = type_name(t) => last.res.val = t
                 /\ last.ty = short_name(t) =>
                       IF \E u \in world.registry : u # t /\ short_name(u) = short_name(t)
                       THEN last.res.val = NoRegistration
                       ELSE last.res.val = t
           /\ (\A t \in world.registry : last.ty # type_name(t) /\ last.ty # short_name(t))
                 => last.res.val = NoRegistration

\* Two registered types share a short name and the script has just looked
\* that name up.
C13_Witness ==
    /\ last.op = "get_type_by_name"
    /\ \E t, u \in world.registry :
          /\ t # u
          /\ short_name(t) = short_name(u)
          /\ last.ty = short_name(t)
    /\ last.res.tag = "Ok"
    /\ last.res.val = NoRegistration

\* C14: insert_child(parent, index, child) with an index greater than the
\* number of children the parent has raises nothing and leaves the parent
\* with the children it had, without the child, in the order they were in,
\* followed by the child.
C14_InsertPastEndAppends ==
    [][(/\ last'.op = "insert_child"
        /\ last'.ent.resolves
        /\ Valid(world, last'.ent.entity)
        /\ last'.kids[1].resolves
        /\ last'.ty > Len(world.children[last'.ent.entity.index]))
       => LET p == last'.ent.entity
              c == last'.kids[1].entity
          IN /\ last'.res = Ok(Unit)
             /\ world'.children[p.index] = Removing(world.children[p.index], {c}) \o <<c>>
             /\ world'.parent[c.index] = p]_vars

\* insert_child with an index past the end has just put a child behind a
\* child the parent already had.
C14_Witness ==
    /\ last.op = "insert_child"
    /\ last.res.tag = "Ok"
    /\ last.ent.resolves
    /\ Valid(world, last.ent.entity)
    /\ last.kids[1].resolves
    /\ LET cs == world.children[last.ent.entity.index]
       IN /\ Len(cs) >= 2
          /\ last.ty > Len(cs)
          /\ cs[Len(cs)] = last.kids[1].entity

\* C15: has_resource and remove_resource given a type without the resource
\* capability raise "Not a resource <short name>" and leave the world as it
\* was; given a resource type, remove_resource returns normally whether the
\* resource is there or not and has_resource answers false after it, and
\* has_resource answers whether the resource is there and changes nothing.
C15_ResourceCapabilityChecked ==
    [][(last'.op \in {"has_resource", "remove_resource"})
       => LET t == last'.ty
          IN IF ~IsResource(t)
             THEN /\ last'.res.tag = "Raised"
                  /\ last'.res.val = "Not a resource " \o short_name(t)
                  /\ world' = world
             ELSE /\ last'.res.tag = "Ok"
                  /\ last'.op = "remove_resource"
                        => /\ last'.res.val = Unit
                           /\ world'.res = world.res \ {t}
                           /\ HasResourceBody(world', t).r = Ok(FALSE)
                  /\ last'.op = "has_resource"
                        => /\ last'.res.val = (t \in world.res)
                           /\ world' = world]_vars

\* remove_resource has just been refused for a type that is no resource,
\* and the resource of the world is still there.
C15_Witness ==
    /\ last.op = "remove_resource"
    /\ last.res.tag = "Raised"
    /\ ~IsResource(last.ty)
    /\ world.res = ResTypes
    /\ ~last.changed

C18_WalkEnds ==
    /\ [](/\ ~walk.diverged
          /\ \A i, j \in DOMAIN walk.trace : walk.trace[i] = walk.trace[j] => i = j)
    /\ [][(/\ last'.op \in {"despawn_recursive", "despawn_children_recursive"}
           /\ last'.ent.resolves
           /\ Valid(world, last'.ent.entity))
          => LET e == last'.ent.entity
             IN /\ last'.res.tag = "Ok"
                /\ \A d \in Range(walk'.trace) : Valid(world, d) /\ ~Valid(world', d)
                /\ last'.op = "despawn_recursive"
                      => e \in Range(walk'.trace)
                /\ last'.op = "despawn_children_recursive"
                      => /\ Valid(world', e)
                         /\ e \notin Range(walk'.trace)
                         /\ world'.children[e.index] = <<>>]_vars

\* despawn_children_recursive has just walked a cycle: the entity it was
\* given is live, and the parent it names was among its descendants.
C18_Witness ==
    /\ last.op = "despawn_children_recursive"
    /\ last.res.tag = "Ok"
    /\ last.ent.resolves
    /\ Valid(world, last.ent.entity)
    /\ world.parent[last.ent.entity.index] \in Range(walk.trace)

\* C19: with and without add their types to the filter of the builder they
\* are called on and return a builder of its own whose component list and
\* filters equal the receiver's right after the call.  A with or without
\* called on that copy changes the copy and leaves the receiver as it was,
\* and a query built from the receiver matches by the receiver's filters
\* alone.
C19_CopyIsSeparate ==
    [][/\ last'.op = "with"
          => /\ builder' = [builder EXCEPT !.with = @ \o last'.kids]
             /\ copy'.b = builder' /\ ~copy'.alias
       /\ last'.op = "without"
          => /\ builder' = [builder EXCEPT !.without = @ \o last'.kids]
             /\ copy'.b = builder' /\ ~copy'.alias
       /\ last'.op = "copy:with"
          => /\ builder' = builder
             /\ copy'.b = [copy.b EXCEPT !.with = @ \o last'.kids]
       /\ last'.op = "copy:without"
          => /\ builder' = builder
             /\ copy'.b = [copy.b EXCEPT !.without = @ \o last'.kids]
       /\ (last'.op = "iter" /\ last'.res.tag = "Ok")
          => {built'[i].entity : i \in DOMAIN built'} = Matches(world, builder)]_vars

\* A query built from the receiver has just returned an entity that the
\* filter added through the copy would have excluded.
C19_Witness ==
    /\ last.op = "iter"
    /\ last.res.tag = "Ok"
    /\ copy.b.without # <<>>
    /\ builder.without = <<>>
    /\ \E k \in DOMAIN built :
          world.comps[built[k].entity.index] \cap Range(copy.b.without) # {}

\* C20: push_children with a parent id that no longer resolves to a live
\* entity, and children that do resolve, returns normally and leaves the
\* world as it was: no entity gets a parent or a child from the call.
C20_StaleParentIsSkipped ==
    [][(/\ last'.op = "push_children"
        /\ last'.ent.resolves
        /\ ~Valid(world, last'.ent.entity)
        /\ \A i \in DOMAIN last'.kids : last'.kids[i].resolves)
       => /\ last'.res.tag = "Ok"
          /\ last'.res.val = Unit
          /\ world' = world]_vars

\* push_children has just been called with the id of a despawned parent
\* and a live child, and the child has no parent.
C20_Witness ==
    /\ last.op = "push_children"
    /\ last.res.tag = "Ok"
    /\ last.ent.resolves
    /\ last.ent.entity \in Issued(world)
    /\ ~Valid(world, last.ent.entity)
    /\ last.kids # <<>>
    /\ last.kids[1].resolves
    /\ Valid(world, last.kids[1].entity)
    /\ world.parent[last.kids[1].entity.index] = NoEntity
    /\ ~last.changed

====
